---- MODULE Spec2Model ----
(***************************************************************************)
(* Crafty API (src/main.py): a FastAPI service over one MongoDB collection *)
(* "product".  The model keeps the collection as a sequence of documents   *)
(* in insertion order, the module-level store handle `db`, the response of *)
(* the request a sequential client has in flight, and the position of each *)
(* concurrently running seed_products invocation.                          *)
(*                                                                         *)
(* Text values are sequences of one-character strings, so that substring   *)
(* search, case folding, regular-expression matching and identifier        *)
(* parsing are computed character by character.  An Optional value is      *)
(* NoneVal (Python None / BSON null) or Some(x).                            *)
(***************************************************************************)
EXTENDS Integers, Sequences, FiniteSets, TLC

VARIABLES
    store,    \* the "product" collection: its documents in insertion order
    db,       \* the module-level handle: DbNone or DbHandle, fixed at start-up
    nextOid,  \* how many identifiers the driver has generated, plus one
    last,     \* the response in flight to the sequential client, or Idle
    prev,     \* a summary of the response delivered before it
    created,  \* the (id, payload) pairs create_product has answered with
    seed      \* per worker: where its seed_products invocation stands

vars == <<store, db, nextOid, last, prev, created, seed>>

DbNone == "None"
DbHandle == "Database"

\* ------------------------------------------------------------ bounds
\* successful create_product calls explored per behaviour
MaxCreates == 2
\* while seed_products invocations interleave: the invocations each worker
\* starts, the samples an invocation gets through while another invocation is
\* under way (past them it is scheduled only when it runs alone), and the
\* successful create_product calls of the client
MaxSeedRuns == 1
MaxSeedItems == 3
MaxConcCreates == 1

\* ------------------------------------------------------- basic values
NoneVal == <<>>
Some(x) == <<x>>
IsSome(o) == o # NoneVal
Val(o) == o[1]

\* numbers: Python int / float (integer-valued), as stored in BSON
IntNum(n) == [t |-> "int", v |-> n]
FloatNum(n) == [t |-> "float", v |-> n]
\* float(x)
ToFloat(x) == [t |-> "float", v |-> x.v]

EmptyMap == [k \in {} |-> NoneVal]
\* dict.get(k, default)
Get(d, k, default) == IF k \in DOMAIN d THEN d[k] ELSE default

\* ------------------------------------------------------------- text
UpperChars == <<"A","B","C","D","E","F","G","H","I","J","K","L","M",
                "N","O","P","Q","R","S","T","U","V","W","X","Y","Z">>
LowerChars == <<"a","b","c","d","e","f","g","h","i","j","k","l","m",
                "n","o","p","q","r","s","t","u","v","w","x","y","z">>
HexChars == {"0","1","2","3","4","5","6","7","8","9",
             "a","b","c","d","e","f","A","B","C","D","E","F"}

LowerChar(c) ==
    IF \E i \in 1..26 : UpperChars[i] = c
    THEN LowerChars[CHOOSE i \in 1..26 : UpperChars[i] = c]
    ELSE c
UpperChar(c) ==
    IF \E i \in 1..26 : LowerChars[i] = c
    THEN UpperChars[CHOOSE i \in 1..26 : LowerChars[i] = c]
    ELSE c
LowerStr(s) == [i \in 1..Len(s) |-> LowerChar(s[i])]
UpperStr(s) == [i \in 1..Len(s) |-> UpperChar(s[i])]

\* ------------------------------------------------ regular expressions
\* The store evaluates {"$regex": p, "$options": "i"} as an unanchored,
\* caseless PCRE search of p in the field.  The patterns the requests of this
\* model carry are built from literal characters and the metacharacters
\* . | ^ $ ; alternation binds weakest.

\* the alternatives of pattern p, split at every "|"
RECURSIVE SplitAlt(_, _)
SplitAlt(p, cur) ==
    IF p = <<>> THEN <<cur>>
    ELSE IF Head(p) = "|" THEN <<cur>> \o SplitAlt(Tail(p), <<>>)
    ELSE SplitAlt(Tail(p), Append(cur, Head(p)))

EqChar(a, b, options) ==
    IF options = "i" THEN LowerChar(a) = LowerChar(b) ELSE a = b

\* does alternative alt, from its atom i on, match s starting at position j
RECURSIVE MatchAt(_, _, _, _, _)
MatchAt(alt, s, i, j, options) ==
    IF i > Len(alt) THEN TRUE
    ELSE IF alt[i] = "^" THEN j = 1 /\ MatchAt(alt, s, i + 1, j, options)
    ELSE IF alt[i] = "$" THEN j = Len(s) + 1 /\ MatchAt(alt, s, i + 1, j, options)
    ELSE IF alt[i] = "." THEN j <= Len(s) /\ MatchAt(alt, s, i + 1, j + 1, options)
    ELSE /\ j <= Len(s)
         /\ EqChar(alt[i], s[j], options)
         /\ MatchAt(alt, s, i + 1, j + 1, options)

\* regex search: some alternative matches at some position
RegexSearch(p, s, options) ==
    LET alts == SplitAlt(p, <<>>) IN
    \E a \in 1..Len(alts) : \E j \in 1..(Len(s) + 1) :
        MatchAt(alts[a], s, 1, j, options)

\* --------------------------------------------------------- identifiers
\* bson ObjectId: 12 bytes, written as 24 hexadecimal digits
OidLen == 24
OidPrefix == <<"6","5","f","0","c","0","d","e","0","0","a","b",
               "c","d","e","f","0","1","2","3","4","5">>
HexDigits == <<"0","1","2","3","4","5","6","7","8","9","a","b","c","d","e","f">>
\* the n-th identifier the store's driver generates
OidOf(n) == OidPrefix \o <<HexDigits[(n \div 16) + 1], HexDigits[(n % 16) + 1]>>
\* (variant: only the length is checked)
OidValidLengthOnly(s) == Len(s) = OidLen
\* ObjectId.is_valid on a str
OidValid(s) == Len(s) = OidLen /\ \A i \in 1..Len(s) : s[i] \in HexChars
\* ObjectId(s): the bytes the digits denote, here their lower-case digits
ParseOid(s) == LowerStr(s)
\* str(ObjectId)
OidStr(o) == o

\* ------------------------------------------------------ SAMPLE_PRODUCTS
Sample1 ==
    [name     |-> <<"B","l","o","c","k","-","P","r","i","n","t","e","d"," ","D","u","p","a","t","t","a">>,
     location |-> <<"J","a","i","p","u","r",","," ","R","a","j","a","s","t","h","a","n">>,
     price    |-> IntNum(1599),
     image    |-> "https://images.unsplash.com/photo-1685976045770-0562879cff98?ixid=M3w3OTkxMTl8MHwxfHNlYXJjaHwxfHxCbG9jay1QcmludGVkJTIwRHVwYXR0YXxlbnwwfDB8fHwxNzYzNTU5NTY1fDA&ixlib=rb-4.1.0&w=1600&auto=format&fit=crop&q=80",
     category |-> <<"T","e","x","t","i","l","e","s">>]

Sample2 ==
    [name     |-> <<"T","e","r","r","a","c","o","t","t","a"," ","V","a","s","e">>,
     location |-> <<"K","u","t","c","h",","," ","G","u","j","a","r","a","t">>,
     price    |-> IntNum(1299),
     image    |-> "https://images.unsplash.com/photo-1523419409543-a3215c7beed5?q=80&w=1200&auto=format&fit=crop",
     category |-> <<"C","e","r","a","m","i","c","s">>]

Sample3 ==
    [name     |-> <<"B","a","m","b","o","o"," ","B","a","s","k","e","t">>,
     location |-> <<"A","s","s","a","m">>,
     price    |-> IntNum(899),
     image    |-> "https://images.unsplash.com/photo-1519710164239-da123dc03ef4?q=80&w=1200&auto=format&fit=crop",
     category |-> <<"H","o","m","e">>]

Sample4 ==
    [name     |-> <<"W","a","r","l","i"," ","A","r","t"," ","C","a","n","v","a","s">>,
     location |-> <<"M","a","h","a","r","a","s","h","t","r","a">>,
     price    |-> IntNum(2199),
     image    |-> "https://images.unsplash.com/photo-1580136579312-94651dfd596d?q=80&w=1200&auto=format&fit=crop",
     category |-> <<"A","r","t">>]

Sample5 ==
    [name     |-> <<"B","l","u","e"," ","P","o","t","t","e","r","y"," ","B","o","w","l">>,
     location |-> <<"J","a","i","p","u","r",","," ","R","a","j","a","s","t","h","a","n">>,
     price    |-> IntNum(749),
     image    |-> "https://images.unsplash.com/photo-1616046229478-9901c5536a45?q=80&w=1200&auto=format&fit=crop",
     category |-> <<"C","e","r","a","m","i","c","s">>]

Sample6 ==
    [name     |-> <<"P","h","u","l","k","a","r","i"," ","S","h","a","w","l">>,
     location |-> <<"P","u","n","j","a","b">>,
     price    |-> IntNum(1899),
     image    |-> "https://images.unsplash.com/photo-1685976045770-0562879cff98?ixid=M3w3OTkxMTl8MHwxfHNlYXJjaHwxfHxCbG9jay1QcmludGVkJTIwRHVwYXR0YXxlbnwwfDB8fHwxNzYzNTU5NTY1fDA&ixlib=rb-4.1.0&w=1600&auto=format&fit=crop&q=80",
     category |-> <<"T","e","x","t","i","l","e","s">>]

SAMPLE_PRODUCTS == <<Sample1, Sample2, Sample3, Sample4, Sample5, Sample6>>

SampleNames == {SAMPLE_PRODUCTS[i].name : i \in 1..Len(SAMPLE_PRODUCTS)}

\* ------------------------------------------------------ schema Product
\* A payload is the mapping of the fields the caller sent.  The declarative
\* schema requires name, price and category, and a price that is not negative.
ProductValid(p) ==
    /\ {"name", "price", "category"} \subseteq DOMAIN p
    /\ p["price"].v >= 0

OptField(p, k) == IF k \in DOMAIN p THEN Some(p[k]) ELSE NoneVal

\* Product(**p): the validated value, every field present, price a float
Product(p) ==
    [name        |-> p["name"],
     description |-> OptField(p, "description"),
     price       |-> ToFloat(p["price"]),
     category    |-> p["category"],
     location    |-> OptField(p, "location"),
     image       |-> OptField(p, "image"),
     in_stock    |-> Get(p, "in_stock", TRUE)]

\* ------------------------------------------------------------ the store
\* insert_one: the driver gives the document a fresh _id and appends it
InsertOne(s, data, n) == Append(s, ("_id" :> OidOf(n)) @@ data)

\* create_document(collection, data): the new store and str(inserted_id)
create_document(s, data, n) ==
    [store |-> InsertOne(s, data, n), id |-> OidStr(OidOf(n))]

\* find_one({field: value}): the first document whose field equals value, or None
find_one(s, field, value) ==
    LET hits == {i \in 1..Len(s) : field \in DOMAIN s[i] /\ s[i][field] = value} IN
    IF hits = {} THEN NoneVal
    ELSE Some(s[CHOOSE i \in hits : \A j \in hits : i <= j])

IsNumber(x) == x.t \in {"int", "float"}

\* {field: {"$regex": p, "$options": o}}: the field is a string and p is found in it
RegexCond(d, field, cond) ==
    /\ field \in DOMAIN d
    /\ IF field \in {"description", "location"}
       THEN IsSome(d[field]) /\ RegexSearch(cond.regex, Val(d[field]), cond.options)
       ELSE RegexSearch(cond.regex, d[field], cond.options)

\* {"price": {"$gte": lo, "$lte": hi}}: the field is a number within the bounds given
RangeCond(d, field, cond) ==
    /\ field \in DOMAIN d
    /\ IsNumber(d[field])
    /\ ("$gte" \in DOMAIN cond => d[field].v >= cond["$gte"])
    /\ ("$lte" \in DOMAIN cond => d[field].v <= cond["$lte"])

\* does document d satisfy filter f (the keys of a filter are ANDed)
Matches(d, f) ==
    /\ "$or" \in DOMAIN f =>
          \E i \in 1..Len(f["$or"]) : RegexCond(d, f["$or"][i].field, f["$or"][i])
    /\ "category" \in DOMAIN f => RegexCond(d, "category", f["category"])
    /\ "price" \in DOMAIN f => RangeCond(d, "price", f["price"])

RECURSIVE FindAll(_, _)
FindAll(s, f) ==
    IF s = <<>> THEN <<>>
    ELSE (IF Matches(Head(s), f) THEN <<Head(s)>> ELSE <<>>) \o FindAll(Tail(s), f)

\* get_documents(collection, filter, limit): list(find(filter).limit(limit))
get_documents(s, f, limit) ==
    LET all == FindAll(s, f) IN
    IF Len(all) > limit THEN SubSeq(all, 1, limit) ELSE all

\* ------------------------------------------------------- list_products
DefaultLimit == 40
MinLimit == 1
MaxLimit == 100

\* a request's query parameters; NoneVal means the parameter was not sent
ListReq(q, category, min_price, max_price, limit) ==
    [q |-> q, category |-> category, min_price |-> min_price,
     max_price |-> max_price, limit |-> limit]

\* (variant: limit declared without its ge/le bounds)
ListParamsValidNoLimit(r) ==
    /\ IsSome(r.min_price) => Val(r.min_price) >= 0
    /\ IsSome(r.max_price) => Val(r.max_price) >= 0
\* Query(None, ge=0) / Query(40, ge=1, le=100): checked before the handler runs
ListParamsValid(r) ==
    /\ IsSome(r.min_price) => Val(r.min_price) >= 0
    /\ IsSome(r.max_price) => Val(r.max_price) >= 0
    /\ IsSome(r.limit) => (Val(r.limit) >= MinLimit /\ Val(r.limit) <= MaxLimit)

EffectiveLimit(r) == IF IsSome(r.limit) THEN Val(r.limit) ELSE DefaultLimit

\* Python truthiness of an Optional[str]: None and "" are false
Truthy(o) == IsSome(o) /\ Val(o) # <<>>

RegexI(field, p) == [field |-> field, regex |-> p, options |-> "i"]

OrPart(r) ==
    IF Truthy(r.q)
    THEN "$or" :> <<RegexI("name", Val(r.q)), RegexI("description", Val(r.q)),
                    RegexI("category", Val(r.q)), RegexI("location", Val(r.q))>>
    ELSE EmptyMap

CategoryPart(r) ==
    IF Truthy(r.category)
    THEN "category" :> RegexI("category", <<"^">> \o Val(r.category) \o <<"$">>)
    ELSE EmptyMap

MinPart(r) == IF r.min_price # NoneVal THEN "$gte" :> Val(r.min_price) ELSE EmptyMap
\* (variant: "if max_price:" instead of "if max_price is not None:")
MaxPartTruthy(r) ==
    IF r.max_price # NoneVal /\ Val(r.max_price) # 0
    THEN "$lte" :> Val(r.max_price) ELSE EmptyMap
MaxPart(r) == IF r.max_price # NoneVal THEN "$lte" :> Val(r.max_price) ELSE EmptyMap

PriceFilter(r) == MinPart(r) @@ MaxPart(r)

PricePart(r) ==
    IF DOMAIN PriceFilter(r) # {} THEN "price" :> PriceFilter(r) ELSE EmptyMap

\* filter_q as built by lines 90-106
FilterQ(r) == OrPart(r) @@ CategoryPart(r) @@ PricePart(r)

\* ProductOut built in the loop of list_products
ListProject(d) ==
    LET d_id == IF "_id" \in DOMAIN d THEN Some(OidStr(d["_id"])) ELSE NoneVal IN
    [id          |-> IF IsSome(d_id) THEN Val(d_id) ELSE <<>>,
     name        |-> Get(d, "name", <<>>),
     description |-> Get(d, "description", NoneVal),
     price       |-> ToFloat(Get(d, "price", IntNum(0))),
     category    |-> Get(d, "category", <<>>),
     location    |-> Get(d, "location", NoneVal),
     image       |-> Get(d, "image", NoneVal),
     in_stock    |-> Get(d, "in_stock", TRUE)]

ProjectAll(docs) == [i \in 1..Len(docs) |-> ListProject(docs[i])]

\* a response: status, body, and the store reads and writes the handler issued
Resp(op, req, status, body, reads, writes) ==
    [op |-> op, req |-> req, status |-> status, body |-> body,
     reads |-> reads, writes |-> writes]

Idle == [op |-> "idle"]

list_products(r) ==
    IF ~ListParamsValid(r) THEN Resp("list_products", r, 422, <<>>, 0, 0)
    ELSE IF db = DbNone THEN Resp("list_products", r, 500, <<>>, 0, 0)
    ELSE LET docs == get_documents(store, FilterQ(r), EffectiveLimit(r)) IN
         Resp("list_products", r, 200, ProjectAll(docs), 1, 0)

\* --------------------------------------------------------- get_product
\* (variant: description and location taken from each other's field)
GetProjectSwapped(doc) ==
    [id          |-> OidStr(doc["_id"]),
     name        |-> Get(doc, "name", <<>>),
     description |-> Get(doc, "location", NoneVal),
     price       |-> ToFloat(Get(doc, "price", IntNum(0))),
     category    |-> Get(doc, "category", <<>>),
     location    |-> Get(doc, "description", NoneVal),
     image       |-> Get(doc, "image", NoneVal),
     in_stock    |-> Get(doc, "in_stock", TRUE)]

GetProject(doc) ==
    [id          |-> OidStr(doc["_id"]),
     name        |-> Get(doc, "name", <<>>),
     description |-> Get(doc, "description", NoneVal),
     price       |-> ToFloat(Get(doc, "price", IntNum(0))),
     category    |-> Get(doc, "category", <<>>),
     location    |-> Get(doc, "location", NoneVal),
     image       |-> Get(doc, "image", NoneVal),
     in_stock    |-> Get(doc, "in_stock", TRUE)]

\* (variant: the id is parsed before the handle is looked at)
get_product_IdFirst(product_id) ==
    IF ~OidValid(product_id) THEN Resp("get_product", product_id, 400, <<>>, 0, 0)
    ELSE IF db = DbNone THEN Resp("get_product", product_id, 500, <<>>, 0, 0)
    ELSE LET doc == find_one(store, "_id", ParseOid(product_id)) IN
         IF doc = NoneVal THEN Resp("get_product", product_id, 404, <<>>, 1, 0)
         ELSE Resp("get_product", product_id, 200, GetProject(Val(doc)), 1, 0)

get_product(product_id) ==
    IF db = DbNone THEN Resp("get_product", product_id, 500, <<>>, 0, 0)
    ELSE IF ~OidValid(product_id) THEN Resp("get_product", product_id, 400, <<>>, 0, 0)
    ELSE LET doc == find_one(store, "_id", ParseOid(product_id)) IN
         IF doc = NoneVal THEN Resp("get_product", product_id, 404, <<>>, 1, 0)
         ELSE Resp("get_product", product_id, 200, GetProject(Val(doc)), 1, 0)

\* ------------------------------------------------------ create_product
\* the response, and the store and identifier counter the handler leaves
Outcome(resp, s, n) == [resp |-> resp, store |-> s, next |-> n]

create_product(payload) ==
    IF ~ProductValid(payload)
    THEN Outcome(Resp("create_product", payload, 422, <<>>, 0, 0), store, nextOid)
    ELSE IF db = DbNone
    THEN Outcome(Resp("create_product", payload, 500, <<>>, 0, 0), store, nextOid)
    ELSE LET new == create_document(store, Product(payload), nextOid) IN
         Outcome(Resp("create_product", payload, 200, new.id, 0, 1),
                 new.store, nextOid + 1)

\* ------------------------------------------------------- seed_products
\* (variant: the lookup names a field the records do not have)
SeedExistsWrongField(s, i) == find_one(s, "title", SAMPLE_PRODUCTS[i]["name"]) # NoneVal

\* line 209-210: exists = db["product"].find_one({"name": p["name"]})
SeedExists(s, i) == find_one(s, "name", SAMPLE_PRODUCTS[i]["name"]) # NoneVal

\* (variant: the sample is written over the first record, as replace_one with
\* an empty filter and upsert would)
SeedCreateReplaceFirst(s, i, n) ==
    IF s = <<>> THEN create_document(s, Product(SAMPLE_PRODUCTS[i]), n).store
    ELSE [s EXCEPT ![1] = ("_id" :> s[1]["_id"]) @@ Product(SAMPLE_PRODUCTS[i])]

\* line 211: create_document("product", Product(**p))
SeedCreate(s, i, n) == create_document(s, Product(SAMPLE_PRODUCTS[i]), n).store

\* one pass of the loop body for sample i, on store s with n the next identifier
SeedItem(acc, i) ==
    IF SeedExists(acc.store, i)
    THEN [acc EXCEPT !.reads = @ + 1]
    ELSE [store    |-> SeedCreate(acc.store, i, acc.next),
          next     |-> acc.next + 1,
          inserted |-> acc.inserted + 1,
          reads    |-> acc.reads + 1,
          writes   |-> acc.writes + 1]

\* the loop over SAMPLE_PRODUCTS[i .. ], run without interruption
RECURSIVE SeedLoop(_, _)
SeedLoop(acc, i) ==
    IF i > Len(SAMPLE_PRODUCTS) THEN acc ELSE SeedLoop(SeedItem(acc, i), i + 1)

SeedRun == SeedLoop([store |-> store, next |-> nextOid, inserted |-> 0,
                     reads |-> 0, writes |-> 0], 1)

\* (the request takes no argument: the response's req records the collection
\* as the invocation found it)
seed_products ==
    IF db = DbNone
    THEN Outcome(Resp("seed_products", store, 500, <<>>, 0, 0), store, nextOid)
    ELSE Outcome(Resp("seed_products", store, 200, SeedRun.inserted,
                      SeedRun.reads, SeedRun.writes),
                 SeedRun.store, SeedRun.next)

\* ------------------------------------------- liveness and diagnostics
read_root == Resp("read_root", <<>>, 200, "Crafty API is running", 0, 0)

hello == Resp("hello", <<>>, 200, "Hello from the backend API!", 0, 0)

\* db.list_collection_names(): a collection exists once it holds a document
ListCollectionNames(s) == IF s = <<>> THEN <<>> ELSE <<"product">>

test_database ==
    IF db # DbNone
    THEN Resp("test_database", <<>>, 200,
              [database |-> "Connected & Working",
               connection_status |-> "Connected",
               collections |-> ListCollectionNames(store)], 1, 0)
    ELSE Resp("test_database", <<>>, 200,
              [database |-> "Available but not initialized",
               connection_status |-> "Not Connected",
               collections |-> <<>>], 0, 0)

\* ------------------------------------------------------------- inputs
Str_vase == <<"v","a","s","e">>
Str_JAIPUR == <<"J","A","I","P","U","R">>
Str_a_dot_a == <<"a",".","a">>
Str_rug_or_pot == <<"r","u","g","|","p","o","t">>
Str_ram == <<"r","a","m">>
Str_Home == <<"H","o","m","e">>
Str_ceramics == <<"c","e","r","a","m","i","c","s">>
Str_C_dot_ramics == <<"C",".","r","a","m","i","c","s">>
Str_Home_or_x == <<"H","o","m","e","|","x">>
Str_Homeware == <<"H","o","m","e","w","a","r","e">>
Str_JuteRug == <<"J","u","t","e"," ","R","u","g">>
Str_HandwovenRug == <<"H","a","n","d","w","o","v","e","n"," ","r","u","g">>
Str_Kolkata == <<"K","o","l","k","a","t","a">>
Str_OldPot == <<"O","l","d"," ","P","o","t">>
Str_not_an_id == <<"n","o","t","-","a","n","-","i","d">>

SearchTerms == {Str_vase, Str_JAIPUR, Str_a_dot_a, Str_rug_or_pot, Str_ram,
                Str_Home, <<>>}
Categories == {Str_ceramics, Sample2.category, Str_Home, Str_ram,
               Str_C_dot_ramics, Str_Home_or_x, <<>>}
PriceBounds == {NoneVal, Some(0), Some(749), Some(1299), Some(2500)}
Limits == {NoneVal, Some(0), Some(1), Some(2), Some(100), Some(101)}

ListRequests ==
    {ListReq(Some(q), NoneVal, NoneVal, NoneVal, l) :
        q \in SearchTerms, l \in {NoneVal, Some(1)}}
    \cup {ListReq(NoneVal, Some(c), NoneVal, NoneVal, NoneVal) : c \in Categories}
    \cup {ListReq(NoneVal, NoneVal, lo, hi, NoneVal) : lo \in PriceBounds, hi \in PriceBounds}
    \cup {ListReq(NoneVal, NoneVal, NoneVal, NoneVal, l) : l \in Limits}
    \cup {ListReq(NoneVal, NoneVal, Some(0 - 1), NoneVal, NoneVal),
          ListReq(NoneVal, NoneVal, NoneVal, Some(0 - 1), NoneVal),
          ListReq(Some(Str_JAIPUR), Some(Str_ceramics), Some(0), Some(1000), Some(2)),
          ListReq(Some(Str_ram), Some(Str_Home), NoneVal, Some(0), Some(1))}

\* the requests the client sends while seed runs interleave
ConcListRequests == {ListReq(NoneVal, NoneVal, NoneVal, NoneVal, Some(1))}

\* identifier strings: well formed or not, of a stored record or of none
MalformedIds ==
    {Str_not_an_id, <<>>, SubSeq(OidOf(1), 1, OidLen - 1), OidOf(1) \o <<"0">>,
     SubSeq(OidOf(1), 1, OidLen - 1) \o <<"g">>}
ProbeIds ==
    {OidStr(OidOf(1)), OidStr(OidOf(2)), UpperStr(OidStr(OidOf(2))),
     OidStr(OidOf(3)), OidStr(OidOf(255)), UpperStr(OidStr(OidOf(255)))}
CreatedIds == {created[i].id : i \in 1..Len(created)}

\* create payloads: the fields the caller sent
PayloadVase ==
    [name |-> Sample2.name, price |-> IntNum(1299), category |-> Sample2.category]
PayloadRug ==
    [name |-> Str_JuteRug, description |-> Str_HandwovenRug, price |-> FloatNum(0),
     category |-> Str_Homeware, location |-> Str_Kolkata,
     image |-> "https://example.com/rug.jpg", in_stock |-> FALSE]
PayloadNoName == [price |-> IntNum(10), category |-> Str_Home]
PayloadNegative ==
    [name |-> Str_OldPot, price |-> IntNum(0 - 5), category |-> Str_Home]
Payloads == {PayloadVase, PayloadRug, PayloadNoName, PayloadNegative}
ConcPayloads == {PayloadVase}

\* collections the service may find at start-up: empty; written by an older
\* writer (fields missing, an integer price, a null); already holding two
\* records of one sample name
LegacyStore ==
    <<("_id" :> OidOf(1)) @@ [name |-> Str_OldPot],
      ("_id" :> OidOf(2)) @@ [name |-> Str_JuteRug, description |-> Some(Str_HandwovenRug),
                              price |-> IntNum(500), category |-> Str_Homeware,
                              location |-> NoneVal, in_stock |-> FALSE]>>
DuplicateStore ==
    <<("_id" :> OidOf(1)) @@ Product(Sample3),
      ("_id" :> OidOf(2)) @@ Product([Sample3 EXCEPT !.price = IntNum(0)])>>
InitialStores == {<<>>, LegacyStore, DuplicateStore}

Workers == {"w1", "w2"}
SeedIdle == [pc |-> "idle", i |-> 0, inserted |-> 0, runs |-> 0]

\* --------------------------------------------------------------- Init
Init ==
    /\ store \in InitialStores
    /\ db \in {DbNone, DbHandle}
    /\ nextOid = Len(store) + 1
    /\ last = Idle
    /\ prev = [op |-> "none"]
    /\ created = <<>>
    /\ seed = [w \in Workers |-> SeedIdle]

\* ------------------------------------------------------------ actions
ListProductsReq(r) ==
    /\ last.op = "idle"
    /\ last' = list_products(r)
    /\ UNCHANGED <<store, db, nextOid, prev, created, seed>>

GetProductReq(id) ==
    /\ last.op = "idle"
    /\ last' = get_product(id)
    /\ UNCHANGED <<store, db, nextOid, prev, created, seed>>

CreateProductReq(payload) ==
    /\ last.op = "idle"
    /\ Len(created) < MaxCreates
    /\ LET out == create_product(payload) IN
       /\ last' = out.resp
       /\ store' = out.store
       /\ nextOid' = out.next
       /\ created' = IF out.resp.status = 200
                     THEN Append(created, [id |-> out.resp.body, payload |-> payload])
                     ELSE created
    /\ UNCHANGED <<db, prev, seed>>

ListProducts == \E r \in ListRequests : ListProductsReq(r)

GetProduct == \E id \in MalformedIds \cup ProbeIds \cup CreatedIds : GetProductReq(id)

CreateProduct == \E payload \in Payloads : CreateProductReq(payload)

SeedProducts ==
    /\ last.op = "idle"
    /\ last' = seed_products.resp
    /\ store' = seed_products.store
    /\ nextOid' = seed_products.next
    /\ UNCHANGED <<db, prev, created, seed>>

ReadRoot ==
    /\ last.op = "idle"
    /\ last' = read_root
    /\ UNCHANGED <<store, db, nextOid, prev, created, seed>>

Hello ==
    /\ last.op = "idle"
    /\ last' = hello
    /\ UNCHANGED <<store, db, nextOid, prev, created, seed>>

TestDatabase ==
    /\ last.op = "idle"
    /\ last' = test_database
    /\ UNCHANGED <<store, db, nextOid, prev, created, seed>>

\* what is remembered of a delivered response: a seed_products response, or
\* that it was another operation's
Summary(resp) ==
    IF resp.op = "seed_products"
    THEN [op |-> resp.op, status |-> resp.status, body |-> resp.body,
          before |-> resp.req]
    ELSE [op |-> "other"]

\* the client receives the response in flight
Deliver ==
    /\ last.op # "idle"
    /\ prev' = Summary(last)
    /\ last' = Idle
    /\ UNCHANGED <<store, db, nextOid, created, seed>>

Next ==
    \/ ListProducts
    \/ GetProduct
    \/ CreateProduct
    \/ SeedProducts
    \/ ReadRoot
    \/ Hello
    \/ TestDatabase
    \/ Deliver

Spec == Init /\ [][Next]_vars

\* ------------------------------ seed_products, one store call at a time
\* A worker thread runs one seed_products invocation; each find_one and each
\* insert is one step, and steps of different workers interleave.

SeedAdvance(st) ==
    IF st.i >= Len(SAMPLE_PRODUCTS)
    THEN [st EXCEPT !.pc = "done"]
    ELSE [st EXCEPT !.pc = "check", !.i = @ + 1]

\* lines 204-206
SeedStart(w) ==
    /\ seed[w].pc = "idle"
    /\ seed[w].runs < MaxSeedRuns
    /\ seed' = [seed EXCEPT ![w] =
                  IF db = DbNone
                  THEN [pc |-> "failed", i |-> 0, inserted |-> 0, runs |-> @.runs + 1]
                  ELSE [pc |-> "check", i |-> 1, inserted |-> 0, runs |-> @.runs + 1]]
    /\ UNCHANGED <<store, db, nextOid, last, prev, created>>

\* lines 209-210
SeedCheck(w) ==
    /\ seed[w].pc = "check"
    /\ \/ seed[w].i <= MaxSeedItems
       \/ \A v \in Workers \ {w} : seed[v].pc \notin {"check", "insert"}
    /\ seed' = [seed EXCEPT ![w] = IF SeedExists(store, seed[w].i)
                                   THEN SeedAdvance(seed[w])
                                   ELSE [seed[w] EXCEPT !.pc = "insert"]]
    /\ UNCHANGED <<store, db, nextOid, last, prev, created>>

\* (variant: the insert looks again and skips a name that has appeared)
SeedInsertIfAbsent(w) ==
    /\ seed[w].pc = "insert"
    /\ IF SeedExists(store, seed[w].i)
       THEN /\ seed' = [seed EXCEPT ![w] = SeedAdvance(seed[w])]
            /\ UNCHANGED <<store, nextOid>>
       ELSE /\ store' = SeedCreate(store, seed[w].i, nextOid)
            /\ nextOid' = nextOid + 1
            /\ seed' = [seed EXCEPT ![w] = SeedAdvance([seed[w] EXCEPT !.inserted = @ + 1])]
    /\ UNCHANGED <<db, last, prev, created>>

\* lines 211-212
SeedInsert(w) ==
    /\ seed[w].pc = "insert"
    /\ store' = SeedCreate(store, seed[w].i, nextOid)
    /\ nextOid' = nextOid + 1
    /\ seed' = [seed EXCEPT ![w] = SeedAdvance([seed[w] EXCEPT !.inserted = @ + 1])]
    /\ UNCHANGED <<db, last, prev, created>>

\* line 213 (or the 500 of line 205): the invocation ends
SeedReturn(w) ==
    /\ seed[w].pc \in {"done", "failed"}
    /\ seed' = [seed EXCEPT ![w] = [SeedIdle EXCEPT !.runs = seed[w].runs]]
    /\ UNCHANGED <<store, db, nextOid, last, prev, created>>

ConcListProducts == \E r \in ConcListRequests : ListProductsReq(r)

ConcGetProduct == \E id \in {Str_not_an_id, OidStr(OidOf(1))} : GetProductReq(id)

ConcCreateProduct ==
    /\ Len(created) < MaxConcCreates
    /\ \E payload \in ConcPayloads : CreateProductReq(payload)

ConcNext ==
    \/ \E w \in Workers : SeedStart(w)
    \/ \E w \in Workers : SeedCheck(w)
    \/ \E w \in Workers : SeedInsert(w)
    \/ \E w \in Workers : SeedReturn(w)
    \/ ConcListProducts
    \/ ConcGetProduct
    \/ ConcCreateProduct
    \/ Deliver

ConcSpec == Init /\ [][ConcNext]_vars

\* ===================================================================
\* Properties
\* ===================================================================
SearchFields == {"name", "description", "category", "location"}

\* how many records of s carry name n
NameCount(s, n) ==
    Cardinality({i \in 1..Len(s) : "name" \in DOMAIN s[i] /\ s[i]["name"] = n})

\* q occurs in s as a literal substring, letter case ignored
ContainsCI(s, q) ==
    \E j \in 0..(Len(s) - Len(q)) :
        \A k \in 1..Len(q) : LowerChar(s[j + k]) = LowerChar(q[k])

\* the text of a field of record d, if it has one
TextOf(d, f) ==
    IF f \notin DOMAIN d THEN NoneVal
    ELSE IF f \in {"description", "location"} THEN d[f]
    ELSE Some(d[f])

LiteralHit(d, q) ==
    \E f \in SearchFields : IsSome(TextOf(d, f)) /\ ContainsCI(Val(TextOf(d, f)), q)

InBody(body, d) == \E k \in 1..Len(body) : body[k].id = d["_id"]

ListAnswered == last.op = "list_products" /\ last.status = 200

OnlyQ(r) ==
    /\ IsSome(r.q)
    /\ r.category = NoneVal /\ r.min_price = NoneVal /\ r.max_price = NoneVal
OnlyCategory(r) ==
    /\ IsSome(r.category) /\ Val(r.category) # <<>>
    /\ r.q = NoneVal /\ r.min_price = NoneVal /\ r.max_price = NoneVal
OnlyPrice(r) ==
    /\ (IsSome(r.min_price) \/ IsSome(r.max_price))
    /\ r.q = NoneVal /\ r.category = NoneVal
BelowLimit == Len(last.body) < EffectiveLimit(last.req)

\* ------------------------------------------------------------------ C1
\* C1: when seed_products is answered (200) right after another seed_products
\* was (200), with nothing in between, the second invocation returned 0, wrote
\* nothing and left the collection as it found it, so the record count is the
\* one the first invocation left; and a sample name carried by two records was
\* already carried by two before the first invocation.
C1_SeedIdempotent ==
    (/\ last.op = "seed_products" /\ last.status = 200
     /\ prev.op = "seed_products" /\ prev.status = 200)
    => /\ last.body = 0
       /\ last.writes = 0
       /\ store = last.req
       /\ Len(store) = Len(prev.before) + prev.body
       /\ \A n \in SampleNames :
             NameCount(store, n) >= 2 => NameCount(prev.before, n) >= 2

\* two seed runs in succession, the first of which inserted something
C1_Witness ==
    /\ last.op = "seed_products" /\ last.status = 200
    /\ prev.op = "seed_products" /\ prev.status = 200
    /\ prev.body > 0
    /\ prev.before # <<>>

\* ------------------------------------------------------------------ C3
C3_WellFormed(id) == Len(id) = 24 /\ \A i \in 1..Len(id) : id[i] \in HexChars
C3_Holders(id) == {i \in 1..Len(store) : store[i]["_id"] = LowerStr(id)}

\* C3: with the store handle present, get_product answers 400 exactly for an
\* id that is not 24 hexadecimal digits, 404 exactly for a well-formed id no
\* record has, and 200 with the projection of the record exactly when a record
\* has the id; a malformed id causes no store read.
C3_LookupSignals ==
    (last.op = "get_product" /\ db = DbHandle)
    => /\ last.status \in {200, 400, 404}
       /\ last.status = 400 <=> ~C3_WellFormed(last.req)
       /\ last.status = 404 <=> (C3_WellFormed(last.req) /\ C3_Holders(last.req) = {})
       /\ last.status = 200 <=> (C3_WellFormed(last.req) /\ C3_Holders(last.req) # {})
       /\ ~C3_WellFormed(last.req) => last.reads = 0
       /\ last.status = 200 =>
             \E i \in C3_Holders(last.req) :
                /\ last.body.id = store[i]["_id"]
                /\ last.body.name = Get(store[i], "name", <<>>)
                /\ last.body.category = Get(store[i], "category", <<>>)

\* a well-formed id that no record of a non-empty collection has
C3_Witness ==
    /\ last.op = "get_product" /\ db = DbHandle
    /\ last.status = 404 /\ store # <<>>

\* ------------------------------------------------------------------ C4
StoreOps == {"list_products", "get_product", "create_product", "seed_products"}
ProbeOps == {"read_root", "hello", "test_database"}

\* C4 as stated: with db None every store-dependent handler answers 500 whatever
\* its arguments (for create_product: a valid payload), issuing no store call.
C4_Original ==
    (db = DbNone /\ last.op \in StoreOps
       /\ (last.op = "create_product" => ProductValid(last.req)))
    => (last.status = 500 /\ last.reads = 0 /\ last.writes = 0)

\* C4 amended: with db None, list_products with query parameters that pass
\* validation, get_product with any id, create_product with a valid payload and
\* seed_products answer 500 and issue no store read or write; a request that
\* fails validation is answered 422, also without a store call; the liveness
\* and diagnostics endpoints answer 200; and no step changes the collection.
C4_Unavailable ==
    /\ [](db = DbNone =>
            /\ last.op \in StoreOps =>
                 /\ last.reads = 0 /\ last.writes = 0
                 /\ last.status \in {500, 422}
                 /\ last.status = 422 <=>
                       \/ (last.op = "list_products" /\ ~ListParamsValid(last.req))
                       \/ (last.op = "create_product" /\ ~ProductValid(last.req))
            /\ last.op \in ProbeOps => last.status = 200)
    /\ [][db = DbNone => (store' = store /\ nextOid' = nextOid)]_vars

\* a malformed id answered 500, not 400, over a collection that holds records
C4_Witness ==
    /\ db = DbNone /\ store # <<>>
    /\ last.op = "get_product" /\ ~C3_WellFormed(last.req) /\ last.status = 500

\* ------------------------------------------------------------------ C5
\* the Product a payload is to read back as
C5_Expected(id, p) ==
    [id          |-> id,
     name        |-> p["name"],
     description |-> IF "description" \in DOMAIN p THEN Some(p["description"]) ELSE NoneVal,
     price       |-> FloatNum(p["price"].v),
     category    |-> p["category"],
     location    |-> IF "location" \in DOMAIN p THEN Some(p["location"]) ELSE NoneVal,
     image       |-> IF "image" \in DOMAIN p THEN Some(p["image"]) ELSE NoneVal,
     in_stock    |-> IF "in_stock" \in DOMAIN p THEN p["in_stock"] ELSE TRUE]

\* C5: with the store handle present, create_product of a valid payload answers
\* 200 with a non-empty id; and whenever get_product is asked for an id that
\* create_product returned, whatever happened since, it answers 200 with the
\* payload's fields, absent optional fields defaulted, price a float, and that id.
C5_RoundTrip ==
    /\ (last.op = "create_product" /\ db = DbHandle /\ ProductValid(last.req))
          => (last.status = 200 /\ last.body # <<>>)
    /\ \A i \in 1..Len(created) :
          (last.op = "get_product" /\ last.req = created[i].id)
          => (last.status = 200
              /\ last.body = C5_Expected(created[i].id, created[i].payload))

\* the first created record read back after a later create and a seed run
C5_Witness ==
    /\ Len(created) = 2
    /\ last.op = "get_product" /\ last.req = created[1].id
    /\ "description" \notin DOMAIN created[1].payload
    /\ created[1].payload["price"].t = "int"
    /\ Len(store) > 6

\* ------------------------------------------------------------------ C6
\* C6 as stated: a free-text search with no other criterion and fewer matches
\* than limit returns a record exactly when q is a literal, case-insensitive
\* substring of its name, description, category or location.
C6_FreeTextLiteral ==
    (ListAnswered /\ OnlyQ(last.req) /\ BelowLimit)
    => \A i \in 1..Len(store) :
          InBody(last.body, store[i]) <=> LiteralHit(store[i], Val(last.req.q))

\* ------------------------------------------------------------------ C7
\* C7 as stated: a category filter returns exactly the records whose category
\* equals c, letter case ignored.
C7_CategoryExact ==
    (ListAnswered /\ OnlyCategory(last.req) /\ BelowLimit)
    => \A i \in 1..Len(store) :
          InBody(last.body, store[i])
          <=> /\ "category" \in DOMAIN store[i]
              /\ LowerStr(store[i]["category"]) = LowerStr(Val(last.req.category))

\* ------------------------------------------------------------------ C8
C8_InRange(d, r) ==
    /\ "price" \in DOMAIN d
    /\ IsSome(r.min_price) => d["price"].v >= Val(r.min_price)
    /\ IsSome(r.max_price) => d["price"].v <= Val(r.max_price)

\* C8: a search by price bounds alone (either or both, 0 included) with fewer
\* matches than limit returns exactly the records whose stored price lies
\* within the bounds given, each reported with that price as a float.
C8_PriceRange ==
    (ListAnswered /\ OnlyPrice(last.req) /\ BelowLimit)
    => /\ \A i \in 1..Len(store) :
             InBody(last.body, store[i]) <=> C8_InRange(store[i], last.req)
       /\ \A k \in 1..Len(last.body) : \E i \in 1..Len(store) :
             /\ store[i]["_id"] = last.body[k].id
             /\ last.body[k].price = FloatNum(store[i]["price"].v)

\* an upper bound of 0 that keeps some records and drops others
C8_Witness ==
    /\ ListAnswered /\ OnlyPrice(last.req)
    /\ last.req.max_price = Some(0)
    /\ last.body # <<>>
    /\ Len(last.body) < Len(store)

\* ------------------------------------------------------------------ C9
C9_Rejected(r) ==
    \/ (IsSome(r.limit) /\ (Val(r.limit) < 1 \/ Val(r.limit) > 100))
    \/ (IsSome(r.min_price) /\ Val(r.min_price) < 0)
    \/ (IsSome(r.max_price) /\ Val(r.max_price) < 0)

C9_Cap(r) == IF IsSome(r.limit) THEN Val(r.limit) ELSE 40

\* C9: a list_products request with limit outside [1, 100] or a negative price
\* bound is answered with a client error and no store call; an answered one
\* carries at most limit products (40 when omitted), one per record of the
\* store's answer, in the store's order.
C9_LimitAndValidation ==
    last.op = "list_products"
    => /\ C9_Rejected(last.req) =>
             (last.status >= 400 /\ last.status < 500 /\ last.reads = 0 /\ last.writes = 0)
       /\ last.status = 200 =>
             /\ ~C9_Rejected(last.req)
             /\ last.reads = 1
             /\ Len(last.body) <= C9_Cap(last.req)
             /\ C9_Cap(last.req) <= 100
             /\ LET hits == FindAll(store, FilterQ(last.req)) IN
                /\ Len(last.body) = IF Len(hits) < C9_Cap(last.req)
                                    THEN Len(hits) ELSE C9_Cap(last.req)
                /\ \A k \in 1..Len(last.body) : last.body[k].id = hits[k]["_id"]

\* the limit cutting the answer short
C9_Witness ==
    /\ ListAnswered /\ IsSome(last.req.limit)
    /\ Len(last.body) = Val(last.req.limit)
    /\ Len(FindAll(store, FilterQ(last.req))) > Val(last.req.limit)

\* ------------------------------------------------------------------ C2
C2_Step ==
    /\ \A w \in Workers :
          (seed[w].pc = "check" /\ seed'[w].pc = "insert")
          => (store' = store /\ NameCount(store, SAMPLE_PRODUCTS[seed[w].i]["name"]) = 0)
    /\ \A w \in Workers :
          (seed[w].pc = "insert" /\ seed'[w] # seed[w])
          => /\ Len(store') = Len(store) + 1
             /\ store'[Len(store')]["name"] = SAMPLE_PRODUCTS[seed[w].i]["name"]
    /\ (last' # last /\ last'.op = "create_product" /\ last'.status = 200)
          => /\ Len(store') = Len(store) + 1
             /\ store'[Len(store')]["name"] = last'.req["name"]

\* C2: in seed_products the existence check and the insert are separate store
\* steps: the step that finds a name absent writes nothing, and the insert that
\* follows appends a record of that name whatever the collection holds by then;
\* a successful create_product appends its record likewise.  Nothing refuses a
\* second record of a name (C2_Witness is the state the race leads to).
C2_SeedRace == [][C2_Step]_vars

\* both workers inserted the first sample, which no other writer ever wrote
C2_Witness ==
    /\ NameCount(store, Sample1.name) >= 2
    /\ \A w \in Workers : seed[w].inserted >= 1

\* ----------------------------------------------------------------- C10
C10_Step ==
    /\ Len(store') >= Len(store)
    /\ SubSeq(store', 1, Len(store)) = store
    /\ (last' # last /\ last'.op \in {"list_products", "get_product"})
          => store' = store
    /\ (last' # last /\ last'.op \in {"list_products", "get_product", "create_product"}
          /\ last'.status \in {400, 404, 422, 500})
          => store' = store

\* C10: every step leaves the records already stored exactly as they were, in
\* place (none modified, none removed, no id changed), and adds records only at
\* the end; a list_products or get_product step, and a create_product step
\* answered 400, 404, 422 or 500, adds none; and no two records share an id.
C10_AppendOnly ==
    /\ [][C10_Step]_vars
    /\ [](\A i \in 1..Len(store) : \A j \in 1..Len(store) :
             i # j => store[i]["_id"] # store[j]["_id"])

\* records appended by a seed run and by create_product, with a read answered
C10_Witness ==
    /\ Len(created) >= 1
    /\ \E w \in Workers : seed[w].inserted >= 1
    /\ last.op = "list_products" /\ last.status = 200
    /\ Len(last.body) >= 1

====
